---- MODULE Spec2Model ----
(***************************************************************************)
(* A model of src/app/ip_checker.py (class IPChecker): the validation      *)
(* pipeline (http_check, https_check, rules_check), the check workers      *)
(* (check_task / start_check), the eviction sweeper (check_low_score_task  *)
(* / remove_low_score_ip) and the rebalancer (recheck_ip_task /            *)
(* resend_check_ip / push_to_pool), running over one shared Redis store.   *)
(*                                                                         *)
(* asyncio is cooperative: the code between two awaits runs atomically, so *)
(* every action below is one such block, ending at an await (a store call, *)
(* an HTTP request, a sleep).                                              *)
(***************************************************************************)
EXTENDS Integers, Sequences, FiniteSets, TLC

\* ------------------------------------------------------------- bounds
NumEndpoints == 2      \* endpoints 1..NumEndpoints (ordered as Redis orders members)
MaxQueue == 3          \* cap on the PendingQueue length (guards of the pushes)
MaxRules == 2          \* longest Config.RULES list drawn
MaxBodyLen == 2        \* longest response body drawn
MaxLatency == 2        \* largest latency (time units) a successful request takes
MaxChecks == 3         \* cap on the Prometheus counter IP_CHECK_TOTAL
MaxOffset == 3         \* MIN_SCORE is drawn from -MaxOffset..MaxOffset
MaxSpan == 12          \* largest MAX_SCORE - MIN_SCORE drawn
MaxStep == 5           \* largest INC_SCORE drawn

\* ------------------------------------------------- program constants
BACKOFF_DELAY == 5           \* asyncio.sleep(5) in handle_task_exception
SWEEP_FLOOR == -100          \* zrangebyscore(REDIS_KEY_IP_POOL, -100, 0)
SWEEP_CEIL == 0
COROUTINE_COUNT_IP_CHECK == 2
DEFAULT_MINI_SCORE == 0
DEFAULT_MAX_SCORE == 100
DEFAULT_INC_SCORE == 10
DEFAULT_CHECK_INTERVAL == 2
DEFAULT_CHECK_CLEAN_IP_INTERVAL == 2
\* RE_PUSH_TO_CHECK_POOL_RATE as the fraction RATE_NUM / RATE_DEN
RATE_NUM == 1
RATE_DEN == 1
REBALANCER_INSTANCES == 2    \* redundant instances of recheck_ip_task

Endpoints == 1..NumEndpoints
BadStr == 0                  \* a queued string IPData.with_str cannot parse
BadBytes == -1               \* queued bytes that bytes.decode() cannot decode
Workers == 1..COROUTINE_COUNT_IP_CHECK
Rebalancers == 1..REBALANCER_INSTANCES
Keys == {"k1", "k2"}
Alphabet == {"a", "b"}

\* ---------------------------------------------------------- responses
Strings(n) == UNION {[1..m -> Alphabet] : m \in 0..n}
Bodies == Strings(MaxBodyLen)

Response(kind, json, origin, text) ==
    [kind |-> kind, json |-> json, origin |-> origin, text |-> text]
NoResponse == Response("none", "-", "-", <<>>)
Timeout == Response("timeout", "-", "-", <<>>)
ConnError == Response("connerr", "-", "-", <<>>)
\* what the echo service (httpbin.org/get) can answer through the proxy
EchoResponses ==
    {Timeout, ConnError,
     Response("done", "invalid", "-", <<>>),
     Response("done", "nondict", "-", <<>>),
     Response("done", "dict", "missing", <<>>),
     Response("done", "dict", "empty", <<>>),
     Response("done", "dict", "addr", <<>>)}
\* what a rule's target URL can answer through the proxy
RuleResponses ==
    {Timeout, ConnError} \cup {Response("done", "-", "-", b) : b \in Bodies}

\* -------------------------------------------------------------- rules
\* RuleData: key, contains (None when ~is_set), enable; the url only names
\* the server whose answer is drawn, so it is left out.
RuleData(key, is_set, contains, enable) ==
    [key |-> key, is_set |-> is_set, contains |-> contains, enable |-> enable]
ContainsValues == {<<>>, <<"a">>, <<"a", "b">>}
\* (a disabled rule is never probed: one of them per key is enough)
RuleSet ==
    {RuleData(k, FALSE, <<>>, e) : k \in Keys, e \in BOOLEAN}
    \cup {RuleData(k, TRUE, c, TRUE) : k \in Keys, c \in ContainsValues}
RuleLists == UNION {[1..n -> RuleSet] : n \in 0..MaxRules}

\* --------------------------------------------------------------- state
VARIABLES
    appEnv,        \* Config.APP_ENV: "TEST" or "PROD"
    rules,         \* Config.RULES
    queue,         \* PendingQueue: the Redis list REDIS_KEY_CHECK_POOL
    pool,          \* VerifiedPool: the sorted set REDIS_KEY_IP_POOL, member -> score
    lastAge,       \* age of the key 'recheck_ip' (DEFAULT_CHECK_INTERVAL: none/expired)
    checkTotal,    \* Prometheus.IP_CHECK_TOTAL
    popped,        \* the number of strings blpop has returned to the workers
    witer,         \* what each worker's current (or last) iteration has done so far
    wpc,           \* each check worker's position
    wip,           \* each worker's IPData under validation
    widx,          \* each worker's index in the loop over Config.RULES
    wresp,         \* the answer to each worker's latest request
    wrules,        \* each worker's local dict `rules` of rules_check
    wprobes,       \* per rule index: "skip", or whether the worker's probe met the rule
    wtimer,        \* time left of each worker's sleep
    wlogged,       \* whether the worker's current iteration logged an error
    spc,           \* the sweeper's position
    needs_remove,  \* the sweeper's list needs_remove
    stimer,        \* time left of the sweeper's sleep
    rpc,           \* each rebalancer instance's position
    rlen,          \* each rebalancer's check_pool_len
    ri,            \* each rebalancer's band start i
    rips,          \* each rebalancer's list needs_check
    rtimer,        \* time left of each rebalancer's sleep
    rstatus,       \* how each rebalancer's current or last cycle went
    rpushed,       \* per endpoint, the pushes of each rebalancer's cycle
    rbp,           \* the backpressure condition held when the cycle read the queue length
    rdirty,        \* the pool changed since the cycle read the queue length
    rgrew,         \* the pool gained a member since the cycle read the queue length
    rkept,         \* the members scored within the bands ever since the cycle began
    scoreCfg,      \* Config.DEFAULT_MINI_SCORE, DEFAULT_MAX_SCORE and DEFAULT_INC_SCORE
    bands          \* the bands [i, end_score] the for loop of line 161 has visited, in order

vars == <<appEnv, rules, queue, pool, lastAge, checkTotal, popped, witer,
          wpc, wip, widx, wresp, wrules, wprobes, wtimer, wlogged,
          spc, needs_remove, stimer,
          rpc, rlen, ri, rips, rtimer, rstatus, rpushed, rbp, rdirty, rgrew, rkept,
          scoreCfg, bands>>

bandVars == <<scoreCfg, bands>>
configVars == <<appEnv, rules, bandVars>>
storeVars == <<queue, pool, lastAge>>
workerVars == <<checkTotal, popped, witer, wpc, wip, widx, wresp, wrules, wprobes, wtimer, wlogged>>
sweeperVars == <<spc, needs_remove, stimer>>
rebalVars == <<rpc, rlen, ri, rips, rtimer, rstatus, rpushed, rbp>>
raceVars == <<rdirty, rgrew, rkept>>

\* ------------------------------------------------------------- IPData
EmptyRules == [k \in {} |-> FALSE]
\* IPData.with_str: a fresh record, no outcome field assigned yet
with_str(s) ==
    [str |-> s, http |-> FALSE, https |-> FALSE, rules |-> EmptyRules,
     delay |-> 0, assigned |-> {}]
NoIP == with_str(BadStr)

\* ------------------------------------------------- validation pipeline
\* (variant: an empty origin is accepted)
EchoRaises_lax(resp) ==
    \/ resp.kind # "done"
    \/ resp.json # "dict"
    \/ resp.origin = "missing"

\* session.get raises (timeout, connection error), resp.json() raises
\* (invalid body), result.get raises (the JSON is no object), or the
\* origin is missing or empty: ValidationFailException
EchoRaises(resp) ==
    \/ resp.kind # "done"
    \/ resp.json # "dict"
    \/ resp.origin # "addr"

\* (variant: no except clause, the outcome stays unassigned on a raise)
http_check_uncaught(ip, resp, lat) ==
    IF EchoRaises(resp)
    THEN ip
    ELSE [ip EXCEPT !.delay = lat, !.http = TRUE,
                    !.assigned = @ \cup {"delay", "http"}]

http_check(ip, resp, lat) ==
    IF EchoRaises(resp)
    THEN [ip EXCEPT !.http = FALSE, !.assigned = @ \cup {"http"}]
    ELSE [ip EXCEPT !.delay = lat, !.http = TRUE,
                    !.assigned = @ \cup {"delay", "http"}]

\* (variant: the HTTPS stage passes only if the HTTP stage did)
https_check_gated(ip, resp) ==
    IF EchoRaises(resp) \/ ~ip.http
    THEN [ip EXCEPT !.https = FALSE, !.assigned = @ \cup {"https"}]
    ELSE [ip EXCEPT !.https = TRUE, !.assigned = @ \cup {"https"}]

https_check(ip, resp) ==
    IF EchoRaises(resp)
    THEN [ip EXCEPT !.https = FALSE, !.assigned = @ \cup {"https"}]
    ELSE [ip EXCEPT !.https = TRUE, !.assigned = @ \cup {"https"}]

\* str.find: the lowest 0-based index where sub occurs in s, or -1
Occurs(s, sub, i) ==
    /\ i + Len(sub) <= Len(s)
    /\ \A j \in 1..Len(sub) : s[i + j] = sub[j]
\* (variant: only an occurrence at index 0 is found)
find_prefix(s, sub) ==
    IF Occurs(s, sub, 0) THEN 0 ELSE -1

find(s, sub) ==
    IF \E i \in 0..Len(s) : Occurs(s, sub, i)
    THEN CHOOSE i \in 0..Len(s) :
            /\ Occurs(s, sub, i)
            /\ \A j \in 0..(i - 1) : ~Occurs(s, sub, j)
    ELSE -1

\* the truth value of rule.contains: None and '' are both false
Truthy(rule) == rule.is_set /\ Len(rule.contains) > 0

\* the body of the try block of rules_check raises
RuleRaises(rule, resp) ==
    \/ resp.kind # "done"
    \/ Truthy(rule) /\ find(resp.text, rule.contains) < 0

\* rules[rule.key] = value
SetItem(d, k, v) ==
    [x \in (DOMAIN d) \cup {k} |-> IF x = k THEN v ELSE d[x]]

\* (variant: a raise also fails the rules recorded before)
rule_iteration_abort(d, rule, resp) ==
    IF RuleRaises(rule, resp)
    THEN [x \in (DOMAIN d) \cup {rule.key} |-> FALSE]
    ELSE SetItem(d, rule.key, TRUE)

\* one iteration of the for loop of rules_check on an enabled rule
rule_iteration(d, rule, resp) ==
    IF RuleRaises(rule, resp)
    THEN SetItem(d, rule.key, FALSE)
    ELSE SetItem(d, rule.key, TRUE)

\* what a rule asks of an answer, read off the rule alone: the request
\* completed and, when a substring is configured, the body holds it
Contains(s, sub) ==
    \E i \in 0..Len(s) :
        /\ i + Len(sub) <= Len(s)
        /\ SubSeq(s, i + 1, i + Len(sub)) = sub
Satisfies(rule, resp) ==
    /\ resp.kind = "done"
    /\ rule.is_set => Contains(resp.text, rule.contains)

\* -------------------------------------------------------- score ledger
\* scores the ledger can give: the sweeper's floor, zero, and the edges
\* of the first, second and last band
ScoreSamples == {SWEEP_FLOOR, 0, 1, DEFAULT_INC_SCORE + 1, DEFAULT_MAX_SCORE}
Pools == UNION {[m -> ScoreSamples] : m \in SUBSET Endpoints}

\* IPSaver.save_ip: upsert the endpoint's score (the delta policy is the
\* ledger's own: any score of its range)
save_ip(p, ip, score) ==
    [e \in (DOMAIN p) \cup {ip.str} |-> IF e = ip.str THEN score ELSE p[e]]

\* IPSaver.remove_ip: delete the members from the pool
remove_ip(p, ips) ==
    [e \in (DOMAIN p) \ ips |-> p[e]]

\* ------------------------------------------------------- check workers
\* (variant: the handler ends the task instead of sleeping)
handle_task_exception_reraise(w) ==
    /\ wlogged' = [wlogged EXCEPT ![w] = TRUE]
    /\ wtimer' = [wtimer EXCEPT ![w] = 0]
    /\ wpc' = [wpc EXCEPT ![w] = "done"]

\* handle_task_exception: log, then sleep 5
handle_task_exception(w) ==
    /\ wlogged' = [wlogged EXCEPT ![w] = TRUE]
    /\ wtimer' = [wtimer EXCEPT ![w] = BACKOFF_DELAY]
    /\ wpc' = [wpc EXCEPT ![w] = "backoff"]

\* an iteration of check_task as seen from outside: whether blpop returned a
\* string, the pipeline stages completed (in order), the calls of save_ip,
\* and whether handle_task_exception was called
Iteration(got, stages, saves, handled) ==
    [popped |-> got, stages |-> stages, saves |-> saves, handled |-> handled]
NoIteration == Iteration(FALSE, <<>>, 0, FALSE)

\* (variant: the loop never breaks)
EndOfIteration_loop == "loop"

\* the end of the loop body of check_task: break in test mode
EndOfIteration == IF appEnv = "TEST" THEN "done" ELSE "loop"

\* (variant: the counter is not moved)
inc_nothing(counter, n) == counter

\* Prometheus.IP_CHECK_TOTAL.inc(1), line 69
inc(counter, n) == counter + n

\* the pops and the counter are followed for the first MaxChecks pops
Counting == popped < MaxChecks

\* (variant: the head of the queue is read and left in place)
PopOk_peek(w) ==
    /\ wpc[w] = "loop"
    /\ queue # <<>>
    /\ Head(queue) \in Endpoints
    /\ queue' = queue
    /\ popped' = IF Counting THEN popped + 1 ELSE popped
    /\ checkTotal' = IF Counting THEN inc(checkTotal, 1) ELSE checkTotal
    /\ witer' = [witer EXCEPT ![w] = Iteration(TRUE, <<>>, 0, FALSE)]
    /\ wip' = [wip EXCEPT ![w] = with_str(Head(queue))]
    /\ wpc' = [wpc EXCEPT ![w] = "http"]
    /\ wresp' = [wresp EXCEPT ![w] = NoResponse]
    /\ UNCHANGED <<configVars, pool, lastAge, widx, wrules, wprobes, wtimer, wlogged, sweeperVars, rebalVars, raceVars>>

\* start_check, lines 65-72: blpop, decode, count, parse, open the session
PopOk(w) ==
    /\ wpc[w] = "loop"
    /\ queue # <<>>
    /\ Head(queue) \in Endpoints
    /\ queue' = Tail(queue)
    /\ popped' = IF Counting THEN popped + 1 ELSE popped
    /\ checkTotal' = IF Counting THEN inc(checkTotal, 1) ELSE checkTotal
    /\ witer' = [witer EXCEPT ![w] = Iteration(TRUE, <<>>, 0, FALSE)]
    /\ wip' = [wip EXCEPT ![w] = with_str(Head(queue))]
    /\ wpc' = [wpc EXCEPT ![w] = "http"]
    /\ wresp' = [wresp EXCEPT ![w] = NoResponse]
    /\ UNCHANGED <<configVars, pool, lastAge, widx, wrules, wprobes, wtimer, wlogged, sweeperVars, rebalVars, raceVars>>

\* start_check: the popped string does not parse, IPData.with_str raises
PopBad(w) ==
    /\ wpc[w] = "loop"
    /\ queue # <<>>
    /\ Head(queue) = BadStr
    /\ queue' = Tail(queue)
    /\ popped' = IF Counting THEN popped + 1 ELSE popped
    /\ checkTotal' = IF Counting THEN inc(checkTotal, 1) ELSE checkTotal
    /\ witer' = [witer EXCEPT ![w] = Iteration(TRUE, <<>>, 0, TRUE)]
    /\ handle_task_exception(w)
    /\ UNCHANGED <<configVars, pool, lastAge, wip, widx, wresp, wrules, wprobes, sweeperVars, rebalVars, raceVars>>

\* start_check line 67: the popped bytes are no UTF-8 text, decode() raises
\* before the counter of line 69 is reached
PopUndecodable(w) ==
    /\ wpc[w] = "loop"
    /\ queue # <<>>
    /\ Head(queue) = BadBytes
    /\ queue' = Tail(queue)
    /\ popped' = IF Counting THEN popped + 1 ELSE popped
    /\ witer' = [witer EXCEPT ![w] = Iteration(TRUE, <<>>, 0, TRUE)]
    /\ handle_task_exception(w)
    /\ UNCHANGED <<configVars, pool, lastAge, checkTotal, wip, widx, wresp, wrules, wprobes, sweeperVars, rebalVars, raceVars>>

\* start_check: Redis.share() or blpop raises (the store is unavailable)
PopFail(w) ==
    /\ wpc[w] = "loop"
    /\ handle_task_exception(w)
    /\ witer' = [witer EXCEPT ![w] = Iteration(FALSE, <<>>, 0, TRUE)]
    /\ UNCHANGED <<configVars, storeVars, checkTotal, popped, wip, widx, wresp, wrules, wprobes, sweeperVars, rebalVars, raceVars>>

\* start_check lines 71-72: opening the client session raises
SessionFail(w) ==
    /\ wpc[w] = "http"
    /\ wip[w].assigned = {}
    /\ handle_task_exception(w)
    /\ witer' = [witer EXCEPT ![w].handled = TRUE]
    /\ UNCHANGED <<configVars, storeVars, checkTotal, popped, wip, widx, wresp, wrules, wprobes, sweeperVars, rebalVars, raceVars>>

\* start_check line 73
HttpCheck(w, answers) ==
    /\ wpc[w] = "http"
    /\ \E resp \in answers, lat \in 1..MaxLatency :
        /\ wip' = [wip EXCEPT ![w] = http_check(wip[w], resp, lat)]
        /\ wresp' = [wresp EXCEPT ![w] = resp]
    /\ wpc' = [wpc EXCEPT ![w] = "https"]
    /\ witer' = [witer EXCEPT ![w].stages = Append(@, "http")]
    /\ UNCHANGED <<configVars, storeVars, checkTotal, popped, widx, wrules, wprobes, wtimer, wlogged, sweeperVars, rebalVars, raceVars>>

\* start_check line 74; then rules_check starts: rules = {}
HttpsCheck(w, answers) ==
    /\ wpc[w] = "https"
    /\ \E resp \in answers :
        /\ wip' = [wip EXCEPT ![w] = https_check(wip[w], resp)]
        /\ wresp' = [wresp EXCEPT ![w] = resp]
    /\ wpc' = [wpc EXCEPT ![w] = "rules"]
    /\ widx' = [widx EXCEPT ![w] = 1]
    /\ wrules' = [wrules EXCEPT ![w] = EmptyRules]
    /\ wprobes' = [wprobes EXCEPT ![w] = <<>>]
    /\ witer' = [witer EXCEPT ![w].stages = Append(@, "https")]
    /\ UNCHANGED <<configVars, storeVars, checkTotal, popped, wtimer, wlogged, sweeperVars, rebalVars, raceVars>>

\* rules_check: one iteration of the loop over Config.RULES
RuleIteration(w, answers) ==
    /\ wpc[w] = "rules"
    /\ widx[w] <= Len(rules)
    /\ LET rule == rules[widx[w]] IN
         IF ~rule.enable
         THEN /\ wprobes' = [wprobes EXCEPT ![w] = Append(@, "skip")]
              /\ UNCHANGED <<wrules, wresp>>
         ELSE \E resp \in answers :
                /\ wrules' = [wrules EXCEPT ![w] = rule_iteration(@, rule, resp)]
                /\ wresp' = [wresp EXCEPT ![w] = resp]
                /\ wprobes' = [wprobes EXCEPT ![w] =
                       Append(@, IF Satisfies(rule, resp) THEN "pass" ELSE "fail")]
    /\ widx' = [widx EXCEPT ![w] = @ + 1]
    /\ UNCHANGED <<configVars, storeVars, checkTotal, popped, witer, wpc, wip, wtimer, wlogged, sweeperVars, rebalVars, raceVars>>

\* rules_check: the loop is over, ip.rules = rules; the session closes
RulesDone(w) ==
    /\ wpc[w] = "rules"
    /\ widx[w] > Len(rules)
    /\ wip' = [wip EXCEPT ![w].rules = wrules[w], ![w].assigned = @ \cup {"rules"}]
    /\ wpc' = [wpc EXCEPT ![w] = "save"]
    /\ witer' = [witer EXCEPT ![w].stages = Append(@, "rules")]
    /\ UNCHANGED <<configVars, storeVars, checkTotal, popped, widx, wresp, wrules, wprobes, wtimer, wlogged, sweeperVars, rebalVars, raceVars>>

\* the members scored above MIN_SCORE and up to MAX_SCORE; of the members
\* kept so far, those that still are
WithinBands(p) ==
    {e \in DOMAIN p : DEFAULT_MINI_SCORE < p[e] /\ p[e] <= DEFAULT_MAX_SCORE}
NoneKept == {}
StillKept(k, p2) == k \cap WithinBands(p2)

\* a change of the pool, as each rebalance cycle sees it
\* (from its queue-length read until its next cycle starts)
SinceLlen(r) == rpc[r] \in {"zcount", "band", "push", "backoff", "sleep", "done"}
PoolChanged(p2) ==
    /\ rkept' = [r \in Rebalancers |-> StillKept(rkept[r], p2)]
    /\ rdirty' = [r \in Rebalancers |-> rdirty[r] \/ (SinceLlen(r) /\ p2 # pool)]
    /\ rgrew' = [r \in Rebalancers |->
                    rgrew[r] \/ (SinceLlen(r) /\ ~(DOMAIN p2 \subseteq DOMAIN pool))]

\* start_check line 78: IPSaver().save_ip(ip) persists the outcome
SaveOk(w) ==
    /\ wpc[w] = "save"
    /\ \E score \in ScoreSamples :
        /\ pool' = save_ip(pool, wip[w], score)
        /\ PoolChanged(save_ip(pool, wip[w], score))
    /\ wpc' = [wpc EXCEPT ![w] = EndOfIteration]
    /\ witer' = [witer EXCEPT ![w].saves = @ + 1]
    /\ UNCHANGED <<configVars, queue, lastAge, checkTotal, popped, wip, widx, wresp, wrules, wprobes, wtimer, wlogged, sweeperVars, rebalVars>>

\* start_check line 78: the ledger raises
SaveFail(w) ==
    /\ wpc[w] = "save"
    /\ handle_task_exception(w)
    /\ witer' = [witer EXCEPT ![w].saves = @ + 1, ![w].handled = TRUE]
    /\ UNCHANGED <<configVars, storeVars, checkTotal, popped, wip, widx, wresp, wrules, wprobes, sweeperVars, rebalVars, raceVars>>

\* the sleep of handle_task_exception is over: back in check_task
Wake(w) ==
    /\ wpc[w] = "backoff"
    /\ wtimer[w] = 0
    /\ wpc' = [wpc EXCEPT ![w] = EndOfIteration]
    /\ wlogged' = [wlogged EXCEPT ![w] = FALSE]
    /\ UNCHANGED <<configVars, storeVars, checkTotal, popped, witer, wip, widx, wresp, wrules, wprobes, wtimer, sweeperVars, rebalVars, raceVars>>

\* ------------------------------------------------------ Redis reads
\* the order of a sorted set: by score, then by member
Before(p, x, y) == p[x] < p[y] \/ (p[x] = p[y] /\ x <= y)
RECURSIVE SortedSeq(_, _)
SortedSeq(p, S) ==
    IF S = {} THEN <<>>
    ELSE LET m == CHOOSE x \in S : \A y \in S : Before(p, x, y)
         IN <<m>> \o SortedSeq(p, S \ {m})
\* (variant: the upper end of the range is left out)
zrangebyscore_open(p, lo, hi) ==
    SortedSeq(p, {e \in DOMAIN p : lo <= p[e] /\ p[e] < hi})

\* redis.zrangebyscore(key, lo, hi): the members scored lo..hi, in order
zrangebyscore(p, lo, hi) ==
    SortedSeq(p, {e \in DOMAIN p : lo <= p[e] /\ p[e] <= hi})
Range(seq) == {seq[i] : i \in 1..Len(seq)}

\* ------------------------------------------------------------- sweeper
\* (variant: the task sleeps and repeats in every mode)
S_EndCycle_sleep ==
    spc' = "sleep" /\ stimer' = DEFAULT_CHECK_CLEAN_IP_INTERVAL

\* the end of the loop body of check_low_score_task
S_EndCycle ==
    IF appEnv = "TEST"
    THEN spc' = "done" /\ stimer' = 0
    ELSE spc' = "sleep" /\ stimer' = DEFAULT_CHECK_CLEAN_IP_INTERVAL

\* (variant: the members scored below 0 only)
low_score_ips_negative(p) == zrangebyscore(p, SWEEP_FLOOR, SWEEP_CEIL - 1)

\* remove_low_score_ip line 143: the members scored -100..0
low_score_ips(p) == zrangebyscore(p, SWEEP_FLOOR, SWEEP_CEIL)

\* remove_low_score_ip lines 140-147: the range query
S_Query ==
    /\ spc = "loop"
    /\ LET ips == low_score_ips(pool) IN
         IF Len(ips) > 0
         THEN /\ needs_remove' = ips
              /\ spc' = "remove"
              /\ UNCHANGED stimer
         ELSE /\ needs_remove' = <<>>
              /\ S_EndCycle
    /\ UNCHANGED <<configVars, storeVars, workerVars, rebalVars, raceVars>>

\* remove_low_score_ip lines 148-149: saver.remove_ip(ips), then the log
S_Remove ==
    /\ spc = "remove"
    /\ pool' = remove_ip(pool, Range(needs_remove))
    /\ PoolChanged(remove_ip(pool, Range(needs_remove)))
    /\ needs_remove' = <<>>
    /\ S_EndCycle
    /\ UNCHANGED <<configVars, queue, lastAge, workerVars, rebalVars>>

\* a store call of remove_low_score_ip raises: handle_task_exception
S_Fail ==
    /\ spc \in {"loop", "remove"}
    /\ spc' = "backoff"
    /\ stimer' = BACKOFF_DELAY
    /\ needs_remove' = <<>>
    /\ UNCHANGED <<configVars, storeVars, workerVars, rebalVars, raceVars>>

\* a sleep of check_low_score_task is over
S_Wake ==
    /\ spc \in {"backoff", "sleep"}
    /\ stimer = 0
    /\ IF spc = "backoff" THEN S_EndCycle ELSE spc' = "loop" /\ stimer' = 0
    /\ UNCHANGED <<configVars, storeVars, workerVars, needs_remove, rebalVars, raceVars>>

\* ---------------------------------------------------------- rebalancer
\* Redis.last_time_check(key, interval): a run was recorded within the interval
last_time_check(age) == age < DEFAULT_CHECK_INTERVAL
\* Redis.save_last_time(key): the key is stamped now
save_last_time == 0

\* (variant: the guard always passes)
RecheckGuard_always(age) == TRUE

\* recheck_ip_task line 54: the run-deduplication guard passes
RecheckGuard(age) == ~last_time_check(age)

\* (variant: a strict comparison)
BackpressureSkip_strict(check_pool_len, ip_pool_len) ==
    check_pool_len * RATE_DEN > ip_pool_len * RATE_NUM

\* resend_check_ip line 159: the backpressure guard returns
BackpressureSkip(check_pool_len, ip_pool_len) ==
    check_pool_len * RATE_DEN >= ip_pool_len * RATE_NUM

\* range(start, stop, step) of line 161
BandStarts(start, stop, step) ==
    {i \in start..(stop - 1) : (i - start) % step = 0}

\* line 161: the first argument of range
range_start(mini) == mini + 1

\* (variant: the range stops at the maximum score)
range_stop_short(maxi, step) == maxi

\* line 161: the second argument of range
range_stop(maxi, step) == maxi + step

BandStart == range_start(DEFAULT_MINI_SCORE)
BandStop == range_stop(DEFAULT_MAX_SCORE, DEFAULT_INC_SCORE)

\* (variant: bands overlapping by one score)
end_score_overlap(i, step) == i + step

\* line 163
end_score(i, step) == i + step - 1

\* the configured score range and band width
DefaultScoreCfg ==
    [mini |-> DEFAULT_MINI_SCORE, maxi |-> DEFAULT_MAX_SCORE, step |-> DEFAULT_INC_SCORE]

\* the band loop is not under study: the configured values, no band recorded
BandsIdle == scoreCfg = DefaultScoreCfg /\ bands = <<>>

\* lines 161-164: the loop's next value of i, when range yields one
NextStart(cfg, visited) == range_start(cfg.mini) + Len(visited) * cfg.step
MoreBands(cfg, visited) ==
    NextStart(cfg, visited) \in
        BandStarts(range_start(cfg.mini), range_stop(cfg.maxi, cfg.step), cfg.step)

\* lines 161-164: one iteration of the for loop queries the band [i, end_score]
BandVisit ==
    /\ MoreBands(scoreCfg, bands)
    /\ LET i == NextStart(scoreCfg, bands) IN
         bands' = Append(bands, [lo |-> i, hi |-> end_score(i, scoreCfg.step)])
    /\ UNCHANGED <<appEnv, rules, scoreCfg, storeVars, workerVars, sweeperVars,
                   rebalVars, raceVars>>

NoPushes == [e \in Endpoints |-> 0]

\* the end of the loop body of recheck_ip_task
R_EndCycle(r, status) ==
    /\ rstatus' = [rstatus EXCEPT ![r] = status]
    /\ IF appEnv = "TEST"
       THEN rpc' = [rpc EXCEPT ![r] = "done"] /\ rtimer' = [rtimer EXCEPT ![r] = 0]
       ELSE /\ rpc' = [rpc EXCEPT ![r] = "sleep"]
            /\ rtimer' = [rtimer EXCEPT ![r] = DEFAULT_CHECK_INTERVAL]

\* recheck_ip_task line 54: Redis.last_time_check and the guard
R_Check(r) ==
    /\ rpc[r] = "loop"
    /\ IF RecheckGuard(lastAge)
       THEN /\ rpc' = [rpc EXCEPT ![r] = "save"]
            /\ rstatus' = [rstatus EXCEPT ![r] = "running"]
            /\ UNCHANGED rtimer
       ELSE R_EndCycle(r, "dedup_skip")
    /\ rpushed' = [rpushed EXCEPT ![r] = NoPushes]
    /\ rbp' = [rbp EXCEPT ![r] = FALSE]
    /\ rdirty' = [rdirty EXCEPT ![r] = FALSE]
    /\ rgrew' = [rgrew EXCEPT ![r] = FALSE]
    /\ rkept' = [rkept EXCEPT ![r] = WithinBands(pool)]
    /\ UNCHANGED <<configVars, storeVars, workerVars, sweeperVars, rlen, ri, rips>>

\* recheck_ip_task line 55: Redis.save_last_time
R_Stamp(r) ==
    /\ rpc[r] = "save"
    /\ lastAge' = save_last_time
    /\ rpc' = [rpc EXCEPT ![r] = "llen"]
    /\ UNCHANGED <<configVars, queue, pool, workerVars, sweeperVars,
                   rlen, ri, rips, rtimer, rstatus, rpushed, rbp, raceVars>>

\* resend_check_ip line 157: redis.llen
R_Llen(r) ==
    /\ rpc[r] = "llen"
    /\ rlen' = [rlen EXCEPT ![r] = Len(queue)]
    /\ rbp' = [rbp EXCEPT ![r] =
                  Len(queue) * RATE_DEN >= Cardinality(DOMAIN pool) * RATE_NUM]
    /\ rpc' = [rpc EXCEPT ![r] = "zcount"]
    /\ UNCHANGED <<configVars, storeVars, workerVars, sweeperVars,
                   ri, rips, rtimer, rstatus, rpushed, raceVars>>

\* resend_check_ip lines 158-161: redis.zcount, the guard, the first band
R_Zcount(r) ==
    /\ rpc[r] = "zcount"
    /\ IF BackpressureSkip(rlen[r], Cardinality(DOMAIN pool))
       THEN /\ R_EndCycle(r, "bp_skip")
            /\ UNCHANGED ri
       ELSE /\ rpc' = [rpc EXCEPT ![r] = "band"]
            /\ ri' = [ri EXCEPT ![r] = BandStart]
            /\ UNCHANGED <<rtimer, rstatus>>
    /\ rlen' = [rlen EXCEPT ![r] = 0]
    /\ UNCHANGED <<configVars, storeVars, workerVars, sweeperVars,
                   rips, rpushed, rbp, raceVars>>

\* the for loop of line 161 moves to its next band, or the cycle is over
R_NextBand(r) ==
    IF ri[r] + DEFAULT_INC_SCORE \in BandStarts(BandStart, BandStop, DEFAULT_INC_SCORE)
    THEN /\ rpc' = [rpc EXCEPT ![r] = "band"]
         /\ ri' = [ri EXCEPT ![r] = @ + DEFAULT_INC_SCORE]
         /\ UNCHANGED <<rtimer, rstatus>>
    ELSE /\ R_EndCycle(r, "complete")
         /\ ri' = [ri EXCEPT ![r] = BandStart]

\* resend_check_ip lines 163-172: redis.zrangebyscore of one band
R_Band(r) ==
    /\ rpc[r] = "band"
    /\ LET needs_check == zrangebyscore(pool, ri[r], end_score(ri[r], DEFAULT_INC_SCORE)) IN
         IF needs_check # <<>>
         THEN /\ rips' = [rips EXCEPT ![r] = needs_check]
              /\ rpc' = [rpc EXCEPT ![r] = "push"]
              /\ UNCHANGED <<ri, rtimer, rstatus>>
         ELSE /\ R_NextBand(r)
              /\ UNCHANGED rips
    /\ UNCHANGED <<configVars, storeVars, workerVars, sweeperVars,
                   rlen, rpushed, rbp, raceVars>>

\* (variant: the endpoints are pushed at the head of the queue)
push_to_pool_front(q, ips) == ips \o q

\* (variant: nothing is pushed)
push_to_pool_nothing(q, ips) == q

\* push_to_pool: redis.rpush(REDIS_KEY_CHECK_POOL, *ips)
push_to_pool(q, ips) == q \o ips

\* resend_check_ip line 173: push_to_pool(needs_check)
R_Push(r) ==
    /\ rpc[r] = "push"
    /\ Len(queue) + Len(rips[r]) <= MaxQueue
    /\ queue' = push_to_pool(queue, rips[r])
    /\ rpushed' = [rpushed EXCEPT ![r] =
           [e \in Endpoints |-> @[e] + Cardinality({k \in 1..Len(rips[r]) : rips[r][k] = e})]]
    /\ rips' = [rips EXCEPT ![r] = <<>>]
    /\ R_NextBand(r)
    /\ UNCHANGED <<configVars, pool, lastAge, workerVars, sweeperVars, rlen, rbp, raceVars>>

\* a store call of recheck_ip_task raises: handle_task_exception
R_Fail(r) ==
    /\ rpc[r] \in {"loop", "save", "llen", "zcount", "band", "push"}
    /\ rpc' = [rpc EXCEPT ![r] = "backoff"]
    /\ rtimer' = [rtimer EXCEPT ![r] = BACKOFF_DELAY]
    /\ rstatus' = [rstatus EXCEPT ![r] = "error"]
    /\ rips' = [rips EXCEPT ![r] = <<>>]
    /\ rlen' = [rlen EXCEPT ![r] = 0]
    /\ ri' = [ri EXCEPT ![r] = BandStart]
    /\ UNCHANGED <<configVars, storeVars, workerVars, sweeperVars, rpushed, rbp, raceVars>>

\* a sleep of recheck_ip_task is over
R_Wake(r) ==
    /\ rpc[r] \in {"backoff", "sleep"}
    /\ rtimer[r] = 0
    /\ IF rpc[r] = "backoff"
       THEN R_EndCycle(r, "error")
       ELSE /\ rpc' = [rpc EXCEPT ![r] = "loop"]
            /\ rstatus' = [rstatus EXCEPT ![r] = "idle"]
            /\ UNCHANGED rtimer
    /\ rpushed' = [rpushed EXCEPT ![r] = NoPushes]
    /\ rbp' = [rbp EXCEPT ![r] = FALSE]
    /\ rdirty' = [rdirty EXCEPT ![r] = FALSE]
    /\ rgrew' = [rgrew EXCEPT ![r] = FALSE]
    /\ rkept' = [rkept EXCEPT ![r] = NoneKept]
    /\ UNCHANGED <<configVars, storeVars, workerVars, sweeperVars, rlen, ri, rips>>

\* ---------------------------------------------------------------- time
Dec(t) == IF t > 0 THEN t - 1 ELSE 0
\* one time unit passes: sleeps run down, the last-run key ages
Tick ==
    /\ \/ \E w \in Workers : wtimer[w] > 0
       \/ stimer > 0
       \/ \E r \in Rebalancers : rtimer[r] > 0
       \/ lastAge < DEFAULT_CHECK_INTERVAL
    /\ wtimer' = [w \in Workers |-> Dec(wtimer[w])]
    /\ stimer' = Dec(stimer)
    /\ rtimer' = [r \in Rebalancers |-> Dec(rtimer[r])]
    /\ lastAge' = IF lastAge < DEFAULT_CHECK_INTERVAL THEN lastAge + 1 ELSE lastAge
    /\ UNCHANGED <<configVars, queue, pool, checkTotal, popped, witer, wpc, wip, widx, wresp, wrules,
                   wprobes, wlogged, spc, needs_remove,
                   rpc, rlen, ri, rips, rstatus, rpushed, rbp, raceVars>>

\* ------------------------------------------ the validation pipeline alone
WorkerInit ==
    /\ checkTotal = 0
    /\ popped = 0
    /\ witer = [w \in Workers |-> NoIteration]
    /\ wpc = [w \in Workers |-> "loop"]
    /\ wip = [w \in Workers |-> NoIP]
    /\ widx = [w \in Workers |-> 1]
    /\ wresp = [w \in Workers |-> NoResponse]
    /\ wrules = [w \in Workers |-> EmptyRules]
    /\ wprobes = [w \in Workers |-> <<>>]
    /\ wtimer = [w \in Workers |-> 0]
    /\ wlogged = [w \in Workers |-> FALSE]

SweeperInit ==
    /\ spc = "loop"
    /\ needs_remove = <<>>
    /\ stimer = 0

RebalancerInit ==
    /\ rpc = [r \in Rebalancers |-> "loop"]
    /\ rlen = [r \in Rebalancers |-> 0]
    /\ ri = [r \in Rebalancers |-> BandStart]
    /\ rips = [r \in Rebalancers |-> <<>>]
    /\ rtimer = [r \in Rebalancers |-> 0]
    /\ rstatus = [r \in Rebalancers |-> "idle"]
    /\ rpushed = [r \in Rebalancers |-> NoPushes]
    /\ rbp = [r \in Rebalancers |-> FALSE]
    /\ rdirty = [r \in Rebalancers |-> FALSE]
    /\ rgrew = [r \in Rebalancers |-> FALSE]
    /\ rkept = [r \in Rebalancers |-> NoneKept]

\* one worker validating one queued endpoint, under every rule list
PipelineInit ==
    /\ appEnv = "TEST"
    /\ rules \in RuleLists
    /\ BandsIdle
    /\ queue = <<1>>
    /\ pool = [e \in {} |-> 0]
    /\ lastAge = DEFAULT_CHECK_INTERVAL
    /\ WorkerInit
    /\ SweeperInit
    /\ RebalancerInit

PipelineNext ==
    \/ PopOk(1)
    \/ HttpCheck(1, EchoResponses)
    \/ HttpsCheck(1, EchoResponses)
    \/ RuleIteration(1, RuleResponses)
    \/ RulesDone(1)

PipelineSpec == PipelineInit /\ [][PipelineNext]_vars

\* ------------------------------------------------------ the whole system
\* IPChecker.run starts the workers, the sweeper and the rebalancer over
\* one store.  The specifications below run them together in the groups
\* the properties are about.
QueueItems == Endpoints \cup {BadStr, BadBytes}
InitQueues == UNION {[1..n -> QueueItems] : n \in 0..1}
\* the one rule of the configuration the tasks run under
SystemRules == <<RuleData("k1", TRUE, <<"a">>, TRUE)>>
\* the answer every request gets there (the ledger scores as it likes)
SystemResponses == {Timeout}

SystemInit ==
    /\ appEnv \in {"TEST", "PROD"}
    /\ rules = SystemRules
    /\ BandsIdle
    /\ queue \in InitQueues
    /\ pool \in Pools
    /\ lastAge = DEFAULT_CHECK_INTERVAL
    /\ WorkerInit
    /\ SweeperInit
    /\ RebalancerInit

\* check_task, while nothing raises
WorkerRun(w) ==
    \/ PopOk(w)
    \/ HttpCheck(w, SystemResponses)
    \/ HttpsCheck(w, SystemResponses)
    \/ RuleIteration(w, SystemResponses)
    \/ RulesDone(w)
    \/ SaveOk(w)

\* check_task
WorkerStep(w) ==
    \/ PopUndecodable(w)
    \/ SessionFail(w)
    \/ WorkerRun(w)
    \/ PopBad(w)
    \/ PopFail(w)
    \/ SaveFail(w)
    \/ Wake(w)

\* check_low_score_task
SweeperStep ==
    \/ S_Query
    \/ S_Remove
    \/ S_Fail
    \/ S_Wake

\* recheck_ip_task
RebalancerStep(r) ==
    \/ R_Check(r)
    \/ R_Stamp(r)
    \/ R_Llen(r)
    \/ R_Zcount(r)
    \/ R_Band(r)
    \/ R_Push(r)
    \/ R_Fail(r)
    \/ R_Wake(r)

\* the check workers alone
\* the check workers of run (line 21), the pool empty at the start, the
\* queue holding up to MaxQueue - 1 strings
WorkerQueues == UNION {[1..n -> QueueItems] : n \in 0..(MaxQueue - 1)}
CheckInit ==
    /\ appEnv \in {"TEST", "PROD"}
    /\ rules = SystemRules
    /\ BandsIdle
    /\ queue \in WorkerQueues
    /\ pool = [e \in {} |-> 0]
    /\ lastAge = DEFAULT_CHECK_INTERVAL
    /\ WorkerInit
    /\ SweeperInit
    /\ RebalancerInit
WorkerNext == (\E w \in Workers : WorkerStep(w)) \/ Tick
WorkerSpec == CheckInit /\ [][WorkerNext]_vars

\* the check workers in test mode, scheduled fairly: a worker that can go
\* on (blpop has something to return, a request is answered, a sleep is
\* over) does go on, and time passes; store and ledger failures may or may
\* not happen
WorkerProgress(w) == WorkerRun(w) \/ PopBad(w) \/ PopUndecodable(w)
TestInit == CheckInit /\ appEnv = "TEST"
TestWorkerSpec ==
    /\ TestInit
    /\ [][WorkerNext]_vars
    /\ \A w \in Workers : WF_vars(WorkerProgress(w)) /\ WF_vars(Wake(w))
    /\ WF_vars(Tick)

\* the sweeper beside a check worker
SweepNext == SweeperStep \/ WorkerStep(1) \/ Tick
SweepSpec == SystemInit /\ [][SweepNext]_vars

\* one cycle of a rebalancer beside a check worker, from every state of
\* the store a cycle can start in
\* (a queue of 0..NumEndpoints copies of one endpoint, any pool, no
\* run recorded within the interval)
StartQueues == {[k \in 1..n |-> e] : n \in 0..NumEndpoints, e \in Endpoints}
RebalanceInit ==
    /\ appEnv = "TEST"
    /\ rules = SystemRules
    /\ BandsIdle
    /\ queue \in StartQueues
    /\ pool \in Pools
    /\ lastAge = DEFAULT_CHECK_INTERVAL
    /\ WorkerInit
    /\ SweeperInit
    /\ RebalancerInit
RebalanceNext == RebalancerStep(1) \/ WorkerRun(1) \/ Tick
RebalanceSpec == RebalanceInit /\ [][RebalanceNext]_vars

\* the two periodic tasks in test mode, from every state of the store
TestTasksInit ==
    /\ appEnv = "TEST"
    /\ rules = SystemRules
    /\ BandsIdle
    /\ queue \in StartQueues
    /\ pool \in Pools
    /\ lastAge \in 0..DEFAULT_CHECK_INTERVAL
    /\ WorkerInit
    /\ SweeperInit
    /\ RebalancerInit
TestTasksNext == SweeperStep \/ RebalancerStep(1) \/ Tick
TestTasksSpec == TestTasksInit /\ [][TestTasksNext]_vars

\* the redundant rebalancer instances, sharing the last-run key
\* (no worker runs, so the pool stays as drawn: empty, or every member in a band)
DedupPools == {p \in Pools : \A e \in DOMAIN p : p[e] \in {1, DEFAULT_MAX_SCORE}}
DedupInit ==
    /\ appEnv \in {"TEST", "PROD"}
    /\ rules = SystemRules
    /\ BandsIdle
    /\ queue = <<>>
    /\ pool \in DedupPools
    /\ lastAge = DEFAULT_CHECK_INTERVAL
    /\ WorkerInit
    /\ SweeperInit
    /\ RebalancerInit
DedupNext == (\E r \in Rebalancers : RebalancerStep(r)) \/ Tick
DedupSpec == DedupInit /\ [][DedupNext]_vars

\* the band loop of resend_check_ip (lines 161-164) alone, for every
\* configuration with -MaxOffset <= MIN_SCORE <= MaxOffset,
\* MIN_SCORE < MAX_SCORE <= MIN_SCORE + MaxSpan and 1 <= INC_SCORE <= MaxStep,
\* and for the configured values
ScoreCfgs ==
    {[mini |-> a, maxi |-> a + d, step |-> c] :
        a \in (0 - MaxOffset)..MaxOffset, d \in 1..MaxSpan, c \in 1..MaxStep}
    \cup {DefaultScoreCfg}
BandInit ==
    /\ appEnv = "TEST"
    /\ rules = <<>>
    /\ scoreCfg \in ScoreCfgs
    /\ bands = <<>>
    /\ queue = <<>>
    /\ pool = [e \in {} |-> 0]
    /\ lastAge = DEFAULT_CHECK_INTERVAL
    /\ WorkerInit
    /\ SweeperInit
    /\ RebalancerInit
BandNext == BandVisit
BandSpec == BandInit /\ [][BandNext]_vars

\* the check workers and one rebalancer in continuous mode while no store
\* call fails, the queue empty at the start; the event loop runs every task
\* that can take a step, and time passes
RebalancerRun(r) ==
    \/ R_Check(r)
    \/ R_Stamp(r)
    \/ R_Llen(r)
    \/ R_Zcount(r)
    \/ R_Band(r)
    \/ R_Push(r)
    \/ R_Wake(r)
LiveInit ==
    /\ appEnv = "PROD"
    /\ rules = SystemRules
    /\ BandsIdle
    /\ queue = <<>>
    /\ pool \in Pools
    /\ lastAge = DEFAULT_CHECK_INTERVAL
    /\ WorkerInit
    /\ SweeperInit
    /\ RebalancerInit
LiveNext == WorkerRun(1) \/ RebalancerRun(1) \/ Tick
LiveSpec ==
    /\ LiveInit
    /\ [][LiveNext]_vars
    /\ WF_vars(WorkerRun(1))
    /\ WF_vars(RebalancerRun(1))
    /\ WF_vars(Tick)

\* the three tasks of run side by side on one store, one cycle or iteration
\* each, from every pool, with at most one endpoint queued at the start;
\* the rebalancer's store calls may fail
SweeperRun == S_Query \/ S_Remove
FrameQueues == {<<>>} \cup {<<e>> : e \in Endpoints}
FrameInit ==
    /\ appEnv = "TEST"
    /\ rules = SystemRules
    /\ BandsIdle
    /\ queue \in FrameQueues
    /\ pool \in Pools
    /\ lastAge = DEFAULT_CHECK_INTERVAL
    /\ WorkerInit
    /\ SweeperInit
    /\ RebalancerInit
FrameNext == SweeperRun \/ RebalancerStep(1) \/ WorkerRun(1) \/ Tick
FrameSpec == FrameInit /\ [][FrameNext]_vars

\* ------------------------------------------------------------- claims
\* what the echo check asks of an answer: the request completed, the
\* body parsed, and it holds a non-empty origin
EchoOk(resp) ==
    /\ resp.kind = "done"
    /\ resp.json = "dict"
    /\ resp.origin = "addr"

PastHttp(w) == wpc[w] \in {"https", "rules", "save"}
PastHttps(w) == wpc[w] \in {"rules", "save"}
EnabledIdx == {i \in 1..Len(rules) : rules[i].enable}

\* C1: a validation pass never fails: after each stage its outcome is
\* assigned and is a boolean (http after http_check, https after
\* https_check, one boolean per enabled rule after rules_check), whatever
\* the answers and the rule list.
C1_PassNeverFails ==
    \A w \in Workers :
        /\ PastHttp(w) => "http" \in wip[w].assigned /\ wip[w].http \in BOOLEAN
        /\ PastHttps(w) => "https" \in wip[w].assigned /\ wip[w].https \in BOOLEAN
        /\ wpc[w] = "save" =>
              /\ "rules" \in wip[w].assigned
              /\ \A i \in EnabledIdx :
                    /\ rules[i].key \in DOMAIN wip[w].rules
                    /\ wip[w].rules[rules[i].key] \in BOOLEAN

\* a pass in which every stage failed, with MaxRules enabled rules
C1_Witness ==
    /\ wpc[1] = "save"
    /\ ~wip[1].http /\ ~wip[1].https
    /\ Len(rules) = MaxRules
    /\ \A i \in 1..Len(rules) : rules[i].enable /\ ~wip[1].rules[rules[i].key]

\* C7: the HTTPS stage runs in every pass, and right after it https is
\* the outcome of the HTTPS probe alone, whether http is true or false.
C7_HttpsIndependent ==
    \A w \in Workers :
        /\ PastHttps(w) => "https" \in wip[w].assigned
        /\ wpc[w] = "rules" /\ widx[w] = 1 => wip[w].https = EchoOk(wresp[w])

\* HTTP failed and HTTPS passed in the same pass
C7_Witness ==
    /\ wpc[1] = "rules" /\ widx[1] = 1
    /\ ~wip[1].http /\ wip[1].https

\* the three other combinations of (http, https)
C7_BothPass == wpc[1] = "rules" /\ wip[1].http /\ wip[1].https
C7_OnlyHttp == wpc[1] = "rules" /\ wip[1].http /\ ~wip[1].https
C7_BothFail == wpc[1] = "rules" /\ ~wip[1].http /\ ~wip[1].https

EnabledKeys == {rules[i].key : i \in EnabledIdx}

\* C8 as stated: for every rule list, after rules_check every enabled
\* rule was probed and its result (the entry under its key) is its own
\* probe's outcome, and the disabled rules were skipped and have
\* contributed no entry.
C8_RuleIsolation_AnyList ==
    \A w \in Workers :
        wpc[w] = "save" =>
            /\ DOMAIN wip[w].rules = EnabledKeys
            /\ \A i \in 1..Len(rules) :
                  IF rules[i].enable
                  THEN /\ wprobes[w][i] \in {"pass", "fail"}
                       /\ wip[w].rules[rules[i].key] = (wprobes[w][i] = "pass")
                  ELSE wprobes[w][i] = "skip"

DistinctKeys ==
    \A i, j \in EnabledIdx : i # j => rules[i].key # rules[j].key

\* C8 (amended): for every rule list, every enabled rule is probed and
\* every disabled one skipped, whatever the other probes' outcomes, and
\* the entries are those of the enabled rules' keys; when the enabled
\* rules' keys are pairwise distinct, each enabled rule's result is its
\* own probe's outcome.
C8_RuleIsolation ==
    \A w \in Workers :
        wpc[w] = "save" =>
            /\ DOMAIN wip[w].rules = EnabledKeys
            /\ \A i \in 1..Len(rules) :
                  /\ wprobes[w][i] = "skip" <=> ~rules[i].enable
                  /\ wprobes[w][i] \in {"skip", "pass", "fail"}
                  /\ (DistinctKeys /\ rules[i].enable) =>
                        wip[w].rules[rules[i].key] = (wprobes[w][i] = "pass")

\* two enabled rules with distinct keys: the first probe failed, the
\* second passed, and both results are recorded
C8_Witness ==
    /\ wpc[1] = "save"
    /\ Len(rules) = 2 /\ DistinctKeys
    /\ rules[1].enable /\ rules[2].enable
    /\ wprobes[1] = <<"fail", "pass">>
    /\ ~wip[1].rules[rules[1].key] /\ wip[1].rules[rules[2].key]

\* C9: right after the probe of an enabled rule, the rule's result is
\* true exactly when the request completed and, if a substring is
\* configured, the body contains it.
C9_RuleResult ==
    \A w \in Workers :
        (wpc[w] = "rules" /\ widx[w] > 1 /\ rules[widx[w] - 1].enable) =>
            LET rule == rules[widx[w] - 1] IN
            /\ rule.key \in DOMAIN wrules[w]
            /\ wrules[w][rule.key] =
                  (/\ wresp[w].kind = "done"
                   /\ rule.is_set => Contains(wresp[w].text, rule.contains))

\* a completed request whose body holds the configured substring, not at
\* its start, and the rule is true
C9_Witness ==
    /\ wpc[1] = "rules" /\ widx[1] > 1
    /\ rules[widx[1] - 1].enable
    /\ rules[widx[1] - 1].is_set
    /\ rules[widx[1] - 1].contains # <<>>
    /\ wresp[1].kind = "done"
    /\ find(wresp[1].text, rules[widx[1] - 1].contains) > 0
    /\ wrules[1][rules[widx[1] - 1].key]

\* C10: right after the HTTP stage, http is true exactly when the echo
\* request completed, parsed and held a non-empty origin; a latency is
\* recorded (and is positive) exactly when http is true, for the rest of
\* the pass; and the pass goes on to the HTTPS and rule stages.
C10_HttpOutcome ==
    \A w \in Workers :
        /\ wpc[w] = "https" => wip[w].http = EchoOk(wresp[w])
        /\ PastHttp(w) =>
              /\ "delay" \in wip[w].assigned <=> wip[w].http
              /\ wip[w].http => wip[w].delay > 0
              /\ ~wip[w].http => wip[w].delay = with_str(wip[w].str).delay
        /\ wpc[w] = "save" => {"https", "rules"} \subseteq wip[w].assigned

\* the echo request answered with an empty origin: http is false, no
\* latency, and the pass reached its end
C10_Witness ==
    /\ wpc[1] = "save"
    /\ ~wip[1].http
    /\ "delay" \notin wip[1].assigned
    /\ {"https", "rules"} \subseteq wip[1].assigned

\* the members of a pool the sweeper is to evict
LowScore(p) == {e \in DOMAIN p : p[e] <= 0}

\* C2: a sweeper cycle asks for the removal of exactly the members whose
\* score is <= 0 when it queries the pool (none scored 1 or more), removes
\* exactly those, and asks for nothing when there is none.
C2_SweepExact ==
    [][/\ (spc = "loop" /\ spc' = "remove") =>
            /\ Range(needs_remove') = LowScore(pool)
            /\ LowScore(pool) # {}
            /\ pool' = pool
       /\ (spc = "loop" /\ spc' \in {"sleep", "done"}) =>
            /\ LowScore(pool) = {}
            /\ pool' = pool
       /\ (spc = "remove" /\ spc' \in {"sleep", "done"}) =>
            /\ DOMAIN pool' = DOMAIN pool \ Range(needs_remove)
            /\ \A e \in DOMAIN pool' : pool'[e] = pool[e]
      ]_vars

\* the sweeper is about to remove a member scored 0 and keeps one scored 1
C2_Witness ==
    /\ spc = "remove"
    /\ \E e \in Range(needs_remove) : e \in DOMAIN pool /\ pool[e] = 0
    /\ \E e \in DOMAIN pool : pool[e] = 1 /\ e \notin Range(needs_remove)

InBounds(score) == DEFAULT_MINI_SCORE <= score /\ score <= DEFAULT_MAX_SCORE
InBands(score) == DEFAULT_MINI_SCORE < score /\ score <= DEFAULT_MAX_SCORE

\* C3 as stated: after a rebalance cycle that passed both guards, every
\* member of the pool (scored within [MIN_SCORE, MAX_SCORE]) was pushed
\* exactly once by it.
C3_EveryMemberOnce ==
    \A r \in Rebalancers :
        rstatus[r] = "complete" =>
            \A e \in DOMAIN pool : InBounds(pool[e]) => rpushed[r][e] = 1

\* C3 (amended): after a rebalance cycle that passed both guards and ran
\* to its end, the pool unchanged since the cycle began to read it, every
\* member scored in (MIN_SCORE, MAX_SCORE] was pushed exactly once by it,
\* and no other endpoint (a member scored MIN_SCORE or less) was pushed.
C3_BandMembersOnce ==
    \A r \in Rebalancers :
        (rstatus[r] = "complete" /\ ~rdirty[r]) =>
            \A e \in Endpoints :
                rpushed[r][e] =
                    IF e \in DOMAIN pool /\ InBands(pool[e]) THEN 1 ELSE 0

\* a completed cycle over a pool with a member of the second band, pushed
\* once, and a member scored MIN_SCORE, not pushed
C3_Witness ==
    /\ rstatus[1] = "complete" /\ ~rdirty[1]
    /\ \E e \in DOMAIN pool : pool[e] = DEFAULT_MINI_SCORE /\ rpushed[1][e] = 0
    /\ \E e \in DOMAIN pool : pool[e] = DEFAULT_INC_SCORE + 1 /\ rpushed[1][e] = 1

\* C4: a cycle of recheck_ip_task that starts while a run is recorded
\* within the interval ends at once, and changes neither the last-run key
\* nor the queue nor the pool.
C4_DedupSkip ==
    [][\A r \in Rebalancers :
          (rpc[r] = "loop" /\ rpc'[r] # "loop" /\ lastAge < DEFAULT_CHECK_INTERVAL) =>
              /\ rpc'[r] \in {"sleep", "done", "backoff"}
              /\ rstatus'[r] \in {"dedup_skip", "error"}
              /\ lastAge' = lastAge
              /\ queue' = queue
              /\ pool' = pool
              /\ rpushed'[r] = NoPushes
      ]_vars

\* instance 1 stamped the key and pushed; instance 2 started within the
\* interval and was skipped
C4_Witness ==
    /\ rstatus[1] = "complete" /\ rpushed[1] # NoPushes
    /\ rstatus[2] = "dedup_skip" /\ rpushed[2] = NoPushes
    /\ lastAge < DEFAULT_CHECK_INTERVAL

\* C5 as stated: a cycle that read a queue length of at least pool size
\* times R pushes nothing.
C5_BackpressureAtStart ==
    \A r \in Rebalancers :
        rbp[r] => rpushed[r] = NoPushes

\* C5 (amended): the same, when the pool gains no member between the
\* cycle's read of the queue length and its read of the pool size.
C5_Backpressure ==
    \A r \in Rebalancers :
        (rbp[r] /\ ~rgrew[r]) =>
            /\ rpushed[r] = NoPushes
            /\ rstatus[r] \in {"running", "bp_skip", "error"}

\* the queue as long as the pool is large (both NumEndpoints): skipped
C5_Witness ==
    /\ rstatus[1] = "bp_skip" /\ rbp[1] /\ ~rgrew[1]
    /\ Len(queue) = NumEndpoints
    /\ Cardinality(DOMAIN pool) = NumEndpoints
    /\ rpushed[1] = NoPushes

\* the same with an empty pool and an empty queue
C5_EmptyPool ==
    /\ rstatus[1] = "bp_skip" /\ rbp[1] /\ ~rgrew[1]
    /\ queue = <<>> /\ DOMAIN pool = {}

\* C6: in continuous mode no worker ever leaves check_task; an error in
\* an iteration takes the worker to the handler, which logs it and sleeps
\* BACKOFF_DELAY = 5 time units; the sleep only runs down with time, and
\* when it is over the worker is back at the start of the loop.
C6_WorkerNeverDies ==
    [][\A w \in Workers :
          /\ appEnv = "PROD" => wpc'[w] # "done"
          /\ (wpc[w] # "backoff" /\ wpc'[w] = "backoff") =>
                wtimer'[w] = 5 /\ wlogged'[w]
          /\ (wpc[w] = "backoff" /\ wpc'[w] = "backoff") =>
                wtimer'[w] \in {wtimer[w], wtimer[w] - 1}
          /\ (wpc[w] = "backoff" /\ wpc'[w] # "backoff") =>
                /\ wtimer[w] = 0
                /\ appEnv = "PROD" => wpc'[w] = "loop"
      ]_vars

\* a worker in continuous mode whose backoff has fully elapsed, the
\* other worker in the middle of a validation
C6_Witness ==
    /\ appEnv = "PROD"
    /\ wpc[1] = "backoff" /\ wtimer[1] = 0 /\ wlogged[1]
    /\ wpc[2] = "save"

\* C11 as stated: in every reachable state the check-attempted counter
\* equals the number of strings the workers have popped from the queue.
C11_CounterEqualsPops == checkTotal = popped

\* C11 (amended): every pop of bytes that decode moves the counter by
\* exactly one in the same step (whatever fails later in the iteration: the
\* counter never moves otherwise), a pop of bytes that do not decode moves
\* nothing, and a step without a pop (a failed pop included) moves nothing.
C11_CounterCountsDecodedPops ==
    [][IF popped' = popped + 1
       THEN /\ queue' = Tail(queue)
            /\ checkTotal' = checkTotal + (IF Head(queue) = BadBytes THEN 0 ELSE 1)
       ELSE popped' = popped /\ checkTotal' = checkTotal
      ]_vars

\* two pops, one of undecodable bytes and one of an endpoint whose persist
\* then failed: the counter stands at one
C11_Witness ==
    /\ popped = 2 /\ checkTotal = 1
    /\ \E w \in Workers :
          /\ witer[w].popped /\ witer[w].handled
          /\ witer[w].stages = <<"http", "https", "rules">>
          /\ witer[w].saves = 1

\* C12 as stated: in test mode every check worker eventually returns from
\* check_task, whatever the queue holds at the start.
C12_AlwaysReturns == \A w \in Workers : <>(wpc[w] = "done")

Waiting == {w \in Workers : wpc[w] = "loop"}

\* C12 (amended): in test mode a worker never starts a second iteration
\* and, once returned, stays returned; a worker whose pop has returned or
\* raised eventually returns, error or not; and so does every waiting
\* worker when the queue holds an item for each of the waiting workers.
C12_SingleIteration ==
    /\ [][\A w \in Workers :
            /\ wpc'[w] = "loop" => wpc[w] = "loop"
            /\ wpc[w] = "done" => wpc'[w] = "done"
            /\ wpc'[w] = "done" => (witer'[w].popped \/ witer'[w].handled)
         ]_vars
    /\ \A w \in Workers : (wpc[w] # "loop") ~> (wpc[w] = "done")
    /\ \A w \in Workers :
          (wpc[w] = "loop" /\ Len(queue) >= Cardinality(Waiting)) ~> (wpc[w] = "done")

\* both workers have returned, one after an error and the handler's
\* sleep, the other after a complete iteration
C12_Witness ==
    /\ appEnv = "TEST"
    /\ wpc = [w \in Workers |-> "done"]
    /\ witer[1].popped /\ witer[1].handled
    /\ witer[2].popped /\ ~witer[2].handled /\ witer[2].saves = 1

\* C13 as stated: in test mode neither the sweeper task nor the rebalancer
\* task ever sleeps, an error in the cycle or not.
C13_NeverSleeps ==
    appEnv = "TEST" =>
        /\ spc \notin {"sleep", "backoff"} /\ stimer = 0
        /\ \A r \in Rebalancers : rpc[r] \notin {"sleep", "backoff"} /\ rtimer[r] = 0

\* C13 (amended): in test mode the sweeper task and the rebalancer task
\* never start a second cycle, stay returned once returned, and never
\* perform the interval sleep; they sleep only in handle_task_exception,
\* for 5 time units, after an error in the cycle, and return when that
\* sleep is over.
C13_OneCycle ==
    [][appEnv = "TEST" =>
         /\ spc' = "loop" => spc = "loop"
         /\ spc = "done" => spc' = "done"
         /\ spc' # "sleep"
         /\ stimer' > 0 => spc' = "backoff"
         /\ (spc # "backoff" /\ spc' = "backoff") => stimer' = BACKOFF_DELAY
         /\ (spc = "backoff" /\ spc' # "backoff") => stimer = 0 /\ spc' = "done"
         /\ \A r \in Rebalancers :
               /\ rpc'[r] = "loop" => rpc[r] = "loop"
               /\ rpc[r] = "done" => rpc'[r] = "done"
               /\ rpc'[r] # "sleep"
               /\ rtimer'[r] > 0 => rpc'[r] = "backoff"
               /\ (rpc[r] # "backoff" /\ rpc'[r] = "backoff") => rtimer'[r] = BACKOFF_DELAY
               /\ (rpc[r] = "backoff" /\ rpc'[r] # "backoff") =>
                     rtimer[r] = 0 /\ rpc'[r] = "done"
      ]_vars

\* the rebalancer has returned after a complete cycle with pushes, and
\* the sweeper is at the end of the handler's sleep after an error
C13_Witness ==
    /\ appEnv = "TEST"
    /\ rpc[1] = "done" /\ rstatus[1] = "complete" /\ rpushed[1] # NoPushes
    /\ spc = "backoff" /\ stimer = 0

\* both tasks have returned, the rebalancer after an error
C13_BothReturned ==
    /\ appEnv = "TEST"
    /\ spc = "done" /\ rpc[1] = "done" /\ rstatus[1] = "error"

\* the scores MIN_SCORE < s <= MAX_SCORE of a configuration
ScoresAbove(cfg) == (cfg.mini + 1)..cfg.maxi
\* the bands that contain a score
BandsOf(s) == {k \in 1..Len(bands) : bands[k].lo <= s /\ s <= bands[k].hi}

\* C14: for all integer MIN_SCORE < MAX_SCORE and INC_SCORE >= 1 the bands
\* the loop visits come in increasing order, are contiguous and pairwise
\* disjoint, each hold INC_SCORE scores, none holds MIN_SCORE or a lower
\* score, and when the loop is over every score s with
\* MIN_SCORE < s <= MAX_SCORE lies in exactly one band.
C14_BandsPartition ==
    /\ \A k \in 1..Len(bands) :
          /\ bands[k].hi - bands[k].lo + 1 = scoreCfg.step
          /\ bands[k].lo > scoreCfg.mini
          /\ k = 1 => bands[k].lo = scoreCfg.mini + 1
          /\ k > 1 => bands[k].lo = bands[k - 1].hi + 1
    /\ \A j, k \in 1..Len(bands) : j < k => bands[j].hi < bands[k].lo
    /\ \A s \in ScoresAbove(scoreCfg) : Cardinality(BandsOf(s)) <= 1
    /\ ~MoreBands(scoreCfg, bands) =>
          \A s \in ScoresAbove(scoreCfg) : Cardinality(BandsOf(s)) = 1

\* the loop is over after several bands, the last of which reaches past
\* MAX_SCORE
C14_Witness ==
    /\ ~MoreBands(scoreCfg, bands)
    /\ Len(bands) >= 3
    /\ scoreCfg.step >= 2
    /\ scoreCfg.mini < 0
    /\ bands[Len(bands)].hi > scoreCfg.maxi

\* the loop is over for the configured values 0, 100, 10: eleven bands
C14_Configured ==
    /\ scoreCfg = DefaultScoreCfg
    /\ ~MoreBands(scoreCfg, bands)
    /\ Len(bands) = 11

\* the endpoint is on the PendingQueue
Queued(e) == \E k \in 1..Len(queue) : queue[k] = e
\* a worker has popped the endpoint and run the three checks on it
Validated(e) ==
    \E w \in Workers : wpc[w] = "save" /\ wip[w].str = e
                        /\ witer[w].stages = <<"http", "https", "rules">>

PastGuard == {r \in Rebalancers : rpc[r] \in {"save", "llen", "zcount", "band", "push"}}

\* C16: with two or more rebalancer instances sharing the last-run key, in
\* any interleaving of their store calls, two instances never both pass the
\* run-deduplication guard for the same interval: at most one instance is
\* past the guard at any time.
C16_AtMostOnePasses == Cardinality(PastGuard) <= 1

\* the step is a pop by worker w: its iteration leaves blpop with a string
Pops(w) == wpc[w] = "loop" /\ wpc'[w] # "loop" /\ witer'[w].popped
\* worker w is between iterations (or in the error handler's sleep)
IterationOver(w) == wpc[w] \in {"loop", "done", "backoff"}
AllStages == <<"http", "https", "rules">>

\* C17: with N concurrent workers each queue occurrence is popped by at most
\* one worker (a pop takes the head off the queue and gives it to exactly
\* one worker; the workers never add to the queue); an iteration makes at
\* most one persist call, and only after the HTTP, HTTPS and rule stages in
\* that order; and when an iteration that popped is over, exactly one of
\* (a) the three stages ran in order and one persist call was made, or
\* (b) the error handler was invoked and no persist call was made, holds.
C17_PopOnceOneOutcome ==
    /\ [][(queue' # queue =>
              /\ queue # <<>> /\ queue' = Tail(queue)
              /\ Cardinality({w \in Workers : Pops(w)}) = 1)
          /\ (\A w \in Workers :
                (Pops(w) =>
                    /\ queue # <<>> /\ queue' = Tail(queue)
                    /\ witer'[w].stages = <<>> /\ witer'[w].saves = 0
                    /\ wpc'[w] = "http" => wip'[w].str = Head(queue))
                /\ (witer'[w].saves > witer[w].saves =>
                    /\ witer[w].saves = 0 /\ witer'[w].saves = 1
                    /\ witer[w].stages = AllStages))]_vars
    /\ [](\A w \in Workers :
            /\ witer[w].saves <= 1
            /\ \E n \in 0..3 : witer[w].stages = SubSeq(AllStages, 1, n)
            /\ (IterationOver(w) /\ witer[w].popped) =>
                   ((witer[w].stages = AllStages /\ witer[w].saves = 1)
                       # (witer[w].handled /\ witer[w].saves = 0)))

\* both workers have popped an occurrence of the same endpoint: one went
\* through the three stages and one persist call, the other's session
\* failed to open and the error handler was invoked without a persist call
C17_Witness ==
    /\ queue = <<>> /\ popped = 2
    /\ \A w \in Workers : IterationOver(w) /\ witer[w].popped /\ wip[w].str = 1
    /\ witer[1].stages = AllStages /\ witer[1].saves = 1 /\ ~witer[1].handled
    /\ witer[2].stages = <<>> /\ witer[2].saves = 0 /\ witer[2].handled

\* whose step it is
SweeperMoves == spc' # spc
RebalancerMoves(r) == rpc'[r] # rpc[r] \/ ri'[r] # ri[r]
WorkerMoves(w) == wpc'[w] # wpc[w] \/ widx'[w] # widx[w] \/ witer'[w] # witer[w]
\* the pool keeps endpoint e as it is
Kept(e) ==
    /\ e \in DOMAIN pool' <=> e \in DOMAIN pool
    /\ e \in DOMAIN pool => pool'[e] = pool[e]

\* C18: a rebalancer step leaves the pool as it is, only appends to the tail
\* of the queue and only stamps the last-run key; a sweeper step leaves the
\* queue and the key as they are and changes the pool only by removing, in
\* its remove call, members of its list needs_remove; a worker step leaves
\* the key as it is, takes at most the head off the queue and changes the
\* pool only in its persist call and only for the endpoint it validated;
\* the score of a member changes in no step but a worker's persist call.
C18_Frame ==
    [][/\ \A r \in Rebalancers : RebalancerMoves(r) =>
              /\ pool' = pool
              /\ Len(queue') >= Len(queue)
              /\ SubSeq(queue', 1, Len(queue)) = queue
              /\ lastAge' \in {lastAge, save_last_time}
       /\ SweeperMoves =>
              /\ queue' = queue
              /\ lastAge' = lastAge
              /\ DOMAIN pool' \subseteq DOMAIN pool
              /\ \A e \in DOMAIN pool' : pool'[e] = pool[e]
              /\ pool' # pool => spc = "remove"
              /\ (DOMAIN pool) \ (DOMAIN pool') \subseteq Range(needs_remove)
       /\ \A w \in Workers : WorkerMoves(w) =>
              /\ lastAge' = lastAge
              /\ queue' = queue \/ (queue # <<>> /\ queue' = Tail(queue))
              /\ queue' # queue => wpc[w] = "loop"
              /\ pool' # pool => wpc[w] = "save"
              /\ \A e \in Endpoints \ {wip[w].str} : Kept(e)
       /\ (\E e \in DOMAIN pool \cap DOMAIN pool' : pool'[e] # pool[e]) =>
              \E w \in Workers : wpc[w] = "save" /\ wpc'[w] # "save"
                                  /\ witer'[w].saves = witer[w].saves + 1
      ]_vars

\* the rebalancer has pushed an endpoint, the worker has persisted a result
\* and the sweeper has then evicted the endpoint, of which an occurrence is
\* still queued
C18_Witness ==
    /\ spc = "done"
    /\ witer[1].saves = 1
    /\ \E e \in Endpoints :
          /\ rpushed[1][e] > 0
          /\ e \notin DOMAIN pool
          /\ Queued(e)

\* C19: every endpoint the sweeper removes has a score of 0 or less at the
\* moment the removal is applied, also when a worker's persist call raised
\* the score between the sweeper's range query and its remove call.
C19_RemovedNonPositive ==
    [][(SweeperMoves /\ pool' # pool) =>
          \A e \in (DOMAIN pool) \ (DOMAIN pool') : pool[e] <= SWEEP_CEIL]_vars

\* the endpoints a worker has persisted a score for (in test mode, where a
\* worker runs one iteration)
Persisted == {wip[w].str : w \in {v \in Workers : witer[v].saves > 0}}

\* C20 (as stated): when check workers persist score changes between the
\* band queries of a rebalance cycle, a cycle that ran to its end has
\* pushed exactly once each endpoint that was in the pool with a score in
\* (MIN_SCORE, MAX_SCORE] for the whole cycle.
C20_StayersOnce ==
    \A r \in Rebalancers :
        rstatus[r] = "complete" =>
            \A e \in rkept[r] : rpushed[r][e] = 1

\* C20 (amended): a cycle that ran to its end has pushed exactly once each
\* endpoint that was in the pool for the whole cycle with a score in
\* (MIN_SCORE, MAX_SCORE] and for which no worker persisted a score,
\* whatever the workers persisted for other endpoints meanwhile.
C20_UnmovedOnce ==
    \A r \in Rebalancers :
        rstatus[r] = "complete" =>
            \A e \in rkept[r] \ Persisted : rpushed[r][e] = 1

\* a completed cycle during which the worker persisted a new score for one
\* member: the other member, its score untouched, was pushed once
C20_Witness ==
    /\ rstatus[1] = "complete" /\ rdirty[1]
    /\ \E e \in rkept[1] \ Persisted : rpushed[1][e] = 1
    /\ \E e \in rkept[1] \cap Persisted : rpushed[1][e] # 1

\* a completed cycle that pushed a member twice, its score having moved
\* from a scanned band to a band not yet scanned
C20_PushedTwice ==
    /\ rstatus[1] = "complete"
    /\ \E e \in rkept[1] : rpushed[1][e] = 2

\* a completed cycle that missed a member, its score having moved from a
\* band not yet scanned to a scanned band
C20_Missed ==
    /\ rstatus[1] = "complete"
    /\ \E e \in rkept[1] : rpushed[1][e] = 0

====
